---- MODULE Spec2Model ----
(***************************************************************************)
(* Model of the collision-safe bulk copy engine of utilities/fileio.py:    *)
(* ensureCountedPath, copySingleFile and copyFiles, over an explicit       *)
(* filesystem.                                                             *)
(*                                                                         *)
(* A file name is a record [stem, aff, num, ext]: "file-001.txt" is        *)
(* [stem |-> "file", aff |-> TRUE, num |-> <<0,0,1>>, ext |-> "txt"], and  *)
(* "file.txt" is [stem |-> "file", aff |-> FALSE, num |-> <<>>, ...].      *)
(* aff says that the literal part of the counter format ("-") follows the  *)
(* stem; num holds the characters printed for the count, a digit 0..9 or   *)
(* Sp for a blank.  A path is the sequence of its names below the root.    *)
(* The filesystem is a function from the existing paths to 0 (directory)   *)
(* or to a positive content id (regular file).                             *)
(***************************************************************************)
EXTENDS Integers, Sequences, FiniteSets, TLC

VARIABLES fs, cache, last, n

vars == <<fs, cache, last, n>>

(***************************************************************************)
(* Names and paths (pathlib.PurePath).                                     *)
(***************************************************************************)
Sp == -1

NoCount == -1

Nm(s, e) == [stem |-> s, aff |-> FALSE, num |-> <<>>, ext |-> e]

Counted(nm, chars) == [stem |-> nm.stem, aff |-> TRUE, num |-> chars, ext |-> nm.ext]

DotDot == Nm("..", "")

Root == <<>>

Parent(p) == IF p = <<>> THEN <<>> ELSE SubSeq(p, 1, Len(p) - 1)

Last(p) == p[Len(p)]

\* a is p itself or one of p.parents
IsPrefix(a, p) == Len(a) <= Len(p) /\ SubSeq(p, 1, Len(a)) = a

\* a \in p.parents: purely lexical, ".." is a component like any other
InParents(a, p) == Len(a) < Len(p) /\ SubSeq(p, 1, Len(a)) = a

RelativeTo(p, base) == SubSeq(p, Len(base) + 1, Len(p))

RECURSIVE Resolve(_)
\* Path.resolve(strict=False) on an absolute path without symlinks
Resolve(p) ==
    IF p = <<>> THEN <<>>
    ELSE LET r == Resolve(Parent(p))
         IN  IF Last(p) = DotDot THEN Parent(r) ELSE Append(r, Last(p))

(***************************************************************************)
(* The filesystem.                                                         *)
(***************************************************************************)
Exists(f, p) == p \in DOMAIN f

IsDir(f, p) == p \in DOMAIN f /\ f[p] = 0

IsFile(f, p) == p \in DOMAIN f /\ f[p] > 0

Children(f, p) == {q \in DOMAIN f : Len(q) = Len(p) + 1 /\ IsPrefix(p, q)}

Under(f, p) == {q \in DOMAIN f : InParents(p, q)}

Prefixes(p) == {SubSeq(p, 1, i) : i \in 0..Len(p)}

\* some component on the way to p (p included) is a regular file
Blocked(f, p) == \E q \in Prefixes(p) : IsFile(f, q)

\* os.makedirs(p, exist_ok=True) where nothing on the way is a regular file
MakeDirs(f, p) ==
    [q \in DOMAIN f \cup Prefixes(p) |-> IF q \in DOMAIN f THEN f[q] ELSE 0]

Remove(f, p) == [q \in {r \in DOMAIN f : ~IsPrefix(p, r)} |-> f[q]]

(***************************************************************************)
(* ensureDir                                                               *)
(***************************************************************************)
ensureDir(f, dirPath) ==
    IF IsDir(f, dirPath) THEN [ok |-> TRUE, err |-> "", fs |-> f]
    ELSE IF IsFile(f, dirPath) THEN [ok |-> FALSE, err |-> "", fs |-> f]
    ELSE IF Blocked(f, dirPath) THEN [ok |-> FALSE, err |-> "NotADirectoryError", fs |-> f]
    ELSE [ok |-> TRUE, err |-> "", fs |-> MakeDirs(f, dirPath)]

(***************************************************************************)
(* Counter formats.  A format is [nph, w, zero]: the number of integer     *)
(* placeholders it holds, and the width and the padding of the last one    *)
(* ("-%03d" is [nph |-> 1, w |-> 3, zero |-> TRUE], "-%3d" pads with       *)
(* blanks).                                                                *)
(***************************************************************************)
RECURSIVE Digits(_)
Digits(c) == IF c < 10 THEN <<c>> ELSE Append(Digits(c \div 10), c % 10)

RECURSIVE Pad(_, _, _)
Pad(s, w, ch) == IF Len(s) >= w THEN s ELSE Pad(<<ch>> \o s, w, ch)

\* fmt % count
FormatCount(fmt, c) == Pad(Digits(c), fmt.w, IF fmt.zero THEN 0 ELSE Sp)

AllDigits(s) == \A i \in 1..Len(s) : s[i] \in 0..9

RECURSIVE ParseInt(_)
\* int(m) of a string of digits
ParseInt(s) == IF s = <<>> THEN 0 ELSE 10 * ParseInt(SubSeq(s, 1, Len(s) - 1)) + s[Len(s)]

SetMax(S) == CHOOSE m \in S : \A x \in S : x <= m

\* regex.match(x.stem) for the entries with x.suffix == suffix, then m.group(1)
MatchedGroups(f, path) ==
    {Last(q).num : q \in {r \in Children(f, Parent(path)) :
                              /\ Last(r).ext = Last(path).ext
                              /\ Last(r).stem = Last(path).stem
                              /\ Last(r).aff
                              /\ AllDigits(Last(r).num)}}

FoundCounts(f, path) == {ParseInt(g) : g \in {h \in MatchedGroups(f, path) : h # <<>>}}

\* a variant without the first test: an existing path is not looked at
constructPath_blind(f, path, fmt, count, skipFirst, minCount) ==
    LET c2 == IF count = NoCount THEN (IF skipFirst THEN NoCount ELSE minCount) ELSE count
    IN  IF c2 = NoCount THEN [err |-> "", path |-> path]
        ELSE IF fmt.nph # 1 THEN [err |-> "TypeError", path |-> path]
        ELSE [err |-> "", path |-> Append(Parent(path), Counted(Last(path), FormatCount(fmt, c2)))]

\* as the docstring has it: minCount takes effect whenever the count is below it
constructPath_minCountFloor(f, path, fmt, count, skipFirst, minCount) ==
    LET c1 == IF Exists(f, path) /\ count = NoCount /\ skipFirst THEN minCount ELSE count
        c2 == IF c1 = NoCount THEN (IF skipFirst THEN NoCount ELSE minCount)
              ELSE IF c1 < minCount THEN minCount ELSE c1
    IN  IF c2 = NoCount THEN [err |-> "", path |-> path]
        ELSE IF fmt.nph # 1 THEN [err |-> "TypeError", path |-> path]
        ELSE [err |-> "", path |-> Append(Parent(path), Counted(Last(path), FormatCount(fmt, c2)))]

constructPath(f, path, fmt, count, skipFirst, minCount) ==
    LET c1 == IF Exists(f, path) /\ count = NoCount /\ skipFirst THEN minCount ELSE count
        c2 == IF c1 = NoCount THEN (IF skipFirst THEN NoCount ELSE minCount) ELSE c1
    IN  IF c2 = NoCount THEN [err |-> "", path |-> path]
        ELSE IF fmt.nph # 1 THEN [err |-> "TypeError", path |-> path]
        ELSE [err |-> "", path |-> Append(Parent(path), Counted(Last(path), FormatCount(fmt, c2)))]

\* a variant that repeats the largest count found
newCountOf_noStep(f, path, step) ==
    IF FoundCounts(f, path) # {} THEN SetMax(FoundCounts(f, path)) ELSE NoCount

newCountOf(f, path, step) ==
    IF FoundCounts(f, path) # {} THEN SetMax(FoundCounts(f, path)) + step ELSE NoCount

\* the defensive check before the return left out
ensureCountedPath_noAssert(f, path, fmt, skipFirst, minCount, step, ensureParent, disable) ==
    IF fmt.nph = 0 THEN [err |-> "ValueError", path |-> path, fs |-> f]
    ELSE
    LET parent == Parent(path)
        ed == IF ensureParent THEN ensureDir(f, parent) ELSE [ok |-> TRUE, err |-> "", fs |-> f]
        f1 == ed.fs
    IN  IF ed.err # "" THEN [err |-> ed.err, path |-> path, fs |-> f1]
        ELSE IF disable THEN [err |-> "", path |-> path, fs |-> f1]
        ELSE IF ~Exists(f1, parent) THEN
            constructPath(f1, path, fmt, NoCount, skipFirst, minCount) @@ [fs |-> f1]
        ELSE IF ~IsDir(f1, parent) THEN [err |-> "NotADirectoryError", path |-> path, fs |-> f1]
        ELSE constructPath(f1, path, fmt, newCountOf(f1, path, step), skipFirst, minCount)
                 @@ [fs |-> f1]

ensureCountedPath(f, path, fmt, skipFirst, minCount, step, ensureParent, disable) ==
    IF fmt.nph = 0 THEN [err |-> "ValueError", path |-> path, fs |-> f]
    ELSE
    LET parent == Parent(path)
        ed == IF ensureParent THEN ensureDir(f, parent) ELSE [ok |-> TRUE, err |-> "", fs |-> f]
        f1 == ed.fs
    IN  IF ed.err # "" THEN [err |-> ed.err, path |-> path, fs |-> f1]
        ELSE IF disable THEN [err |-> "", path |-> path, fs |-> f1]
        ELSE IF ~Exists(f1, parent) THEN
            constructPath(f1, path, fmt, NoCount, skipFirst, minCount) @@ [fs |-> f1]
        ELSE IF ~IsDir(f1, parent) THEN [err |-> "NotADirectoryError", path |-> path, fs |-> f1]
        ELSE LET ensured == constructPath(f1, path, fmt, newCountOf(f1, path, step),
                                          skipFirst, minCount)
             IN  IF ensured.err = "" /\ Exists(f1, ensured.path)
                 THEN [err |-> "AssertionError", path |-> ensured.path, fs |-> f1]
                 ELSE ensured @@ [fs |-> f1]

(***************************************************************************)
(* shutil.copytree, shutil.copy2 and shutil.move                           *)
(***************************************************************************)
\* the subtree at s written at d; entries of f elsewhere are kept
Graft(f, s, d) ==
    LET sub == {q \in DOMAIN f : IsPrefix(s, q)}
        new == {d \o RelativeTo(q, s) : q \in sub}
    IN  [q \in DOMAIN f \cup new |->
            IF q \in new THEN f[s \o RelativeTo(q, d)] ELSE f[q]]

\* shutil.copytree(src, dst): dst must not exist; missing parents are created.
\* The entries of src are listed before dst is made, so a dst directly inside
\* src receives a copy of src as it was; a dst deeper inside src is copied
\* into itself until the interpreter gives up (what that leaves on disk is
\* not modelled, and no run of the specifications below asks for it).
copytree(f, s, d) ==
    IF Exists(f, d) THEN [err |-> "FileExistsError", fs |-> f]
    ELSE IF Blocked(f, Parent(d)) THEN [err |-> "NotADirectoryError", fs |-> f]
    ELSE IF InParents(s, Parent(d)) THEN [err |-> "RecursionError", fs |-> MakeDirs(f, d)]
    ELSE [err |-> "", fs |-> Graft(MakeDirs(f, Parent(d)), s, d)]

\* shutil.copy2(src, dst): into dst when dst is a directory, else onto dst
copy2(f, s, d) ==
    LET real == IF IsDir(f, d) THEN Append(d, Last(s)) ELSE d
    IN  IF real = s THEN [err |-> "SameFileError", fs |-> f]
        ELSE IF IsDir(f, real) THEN [err |-> "IsADirectoryError", fs |-> f]
        ELSE IF ~IsDir(f, Parent(real)) THEN [err |-> "FileNotFoundError", fs |-> f]
        ELSE [err |-> "", fs |-> (real :> f[s]) @@ f]

\* shutil.move(src, dst): into dst when dst is a directory, else os.rename
move(f, s, d) ==
    LET real == IF IsDir(f, d) /\ d # s THEN Append(d, Last(s)) ELSE d
    IN  IF real = s THEN [err |-> "", fs |-> f]
        ELSE IF IsDir(f, d) /\ Exists(f, real) THEN [err |-> "Error", fs |-> f]
        ELSE IF IsDir(f, s) /\ InParents(s, real) THEN [err |-> "Error", fs |-> f]
        ELSE IF IsDir(f, s) /\ IsFile(f, real) THEN [err |-> "FileExistsError", fs |-> f]
        ELSE IF ~IsDir(f, Parent(real)) THEN [err |-> "FileNotFoundError", fs |-> f]
        ELSE [err |-> "", fs |-> Remove(Graft(Remove(f, real), s, real), s)]

(***************************************************************************)
(* copySingleFile.  count is "no" (False), "count" (True) or "skipFirst";  *)
(* hasCache says whether a cache set was passed.  The result holds what    *)
(* the call returns (ret is "dst" or "False", or "raise" with err set),    *)
(* the destination it worked on, and the filesystem and cache after it.    *)
(***************************************************************************)
DefaultFmt == [nph |-> 1, w |-> 3, zero |-> TRUE]

DefaultMinCount == 1

DefaultStep == 1

transfer(f, src, dst, mv) ==
    IF mv THEN move(f, src, dst)
    ELSE IF IsDir(f, src) THEN copytree(f, src, dst)
    ELSE copy2(f, src, dst)

\* the parent directory is created before the destination is looked at
parentMade(f, dst) ==
    IF IsDir(f, Parent(dst)) THEN [err |-> "", fs |-> f]
    ELSE IF IsFile(f, Parent(dst)) THEN [err |-> "FileExistsError", fs |-> f]
    ELSE IF Blocked(f, Parent(dst)) THEN [err |-> "NotADirectoryError", fs |-> f]
    ELSE [err |-> "", fs |-> MakeDirs(f, Parent(dst))]

\* a variant that never refuses
refused_never(f, dst, force) == FALSE

\* dst.exists() and not force
refused(f, dst, force) == Exists(f, dst) /\ ~force

\* a variant that forgets the pairs recorded before
recorded_only(cch, src, dst, hasCache) == IF hasCache THEN {<<src, dst>>} ELSE cch

\* if cache is not None: cache.add((src,dst))
recorded(cch, src, dst, hasCache) == IF hasCache THEN cch \cup {<<src, dst>>} ELSE cch

\* a variant that consults the cache whatever force is
cached_ignoresForce(cch, src, dst, force, hasCache) == hasCache /\ <<src, dst>> \in cch

\* not force and (cache and (src,dst) in cache)
cached(cch, src, dst, force, hasCache) == ~force /\ hasCache /\ <<src, dst>> \in cch

copySingleFile(f, cch, src0, dst0, force, mv, count, hasCache) ==
    LET src == Resolve(src0)
        cp  == IF count # "no"
               THEN ensureCountedPath(f, Resolve(dst0), DefaultFmt, count = "skipFirst",
                                      DefaultMinCount, DefaultStep, FALSE, FALSE)
               ELSE [err |-> "", path |-> Resolve(dst0), fs |-> f]
        dst == cp.path
        out(ret, err, g, c, x) ==
            [ret |-> ret, err |-> err, src |-> src, dst |-> dst, fs |-> g, cache |-> c, xfer |-> x]
    IN  IF cp.err # "" THEN out("raise", cp.err, f, cch, FALSE)
        ELSE IF ~Exists(f, src) THEN out("False", "", f, cch, FALSE)
        ELSE IF cached(cch, src, dst, force, hasCache) THEN out("dst", "", f, cch, FALSE)
        ELSE LET pm == parentMade(f, dst)
             IN  IF pm.err # "" THEN out("raise", pm.err, pm.fs, cch, FALSE)
                 ELSE IF refused(pm.fs, dst, force) THEN out("False", "", pm.fs, cch, FALSE)
                 ELSE LET t == transfer(pm.fs, src, dst, mv)
                      IN  IF t.err # "" THEN out("raise", t.err, t.fs, cch, FALSE)
                          ELSE IF ~Exists(t.fs, dst) THEN out("False", "", t.fs, cch, TRUE)
                          ELSE out("dst", "", t.fs, recorded(cch, src, dst, hasCache), TRUE)

(***************************************************************************)
(* Ordering of paths (sorted() on pathlib paths compares the parts as      *)
(* strings).  StemOrder lists the stems and suffixes of the model in       *)
(* string order; '-' sorts before '.', a blank before both, digits after.  *)
(***************************************************************************)
StemOrder == <<"", "..", "a", "b", "c", "d", "e", "evil", "f", "g", "in", "out", "some", "t", "x", "y">>

Rank(str) == CHOOSE i \in 1..Len(StemOrder) : StemOrder[i] = str

NameKey(nm) ==
    <<Rank(nm.stem)>>
    \o (IF nm.aff THEN <<1>> \o [i \in 1..Len(nm.num) |-> IF nm.num[i] = Sp THEN 0 ELSE 3 + nm.num[i]]
        ELSE <<>>)
    \o (IF nm.ext # "" THEN <<2, Rank(nm.ext)>> ELSE <<>>)

RECURSIVE SeqLess(_, _)
SeqLess(a, b) ==
    IF b = <<>> THEN FALSE
    ELSE IF a = <<>> THEN TRUE
    ELSE IF a[1] # b[1] THEN a[1] < b[1]
    ELSE SeqLess(Tail(a), Tail(b))

RECURSIVE PathLess(_, _)
PathLess(p, q) ==
    IF q = <<>> THEN FALSE
    ELSE IF p = <<>> THEN TRUE
    ELSE IF p[1] # q[1] THEN SeqLess(NameKey(p[1]), NameKey(q[1]))
    ELSE PathLess(Tail(p), Tail(q))

RECURSIVE SortedPaths_descending(_)
\* a variant that sorts the wrong way round
SortedPaths_descending(S) ==
    IF S = {} THEN <<>>
    ELSE LET m == CHOOSE x \in S : \A y \in S \ {x} : PathLess(y, x)
         IN  <<m>> \o SortedPaths_descending(S \ {m})

RECURSIVE SortedPaths(_)
\* sorted(S) for a set of paths
SortedPaths(S) ==
    IF S = {} THEN <<>>
    ELSE LET m == CHOOSE x \in S : \A y \in S \ {x} : PathLess(x, y)
         IN  <<m>> \o SortedPaths(S \ {m})

(***************************************************************************)
(* Path.glob.  A selector is a sequence of segments [k, v]: "rec" is **,   *)
(* "all" is *, "ext" is *.v, "dot" is *.*, "lit" is the name v.  The empty *)
(* sequence is the selector None (or ""): the source root itself.          *)
(***************************************************************************)
Seg(k, v) == [k |-> k, v |-> v]

SegMatches(seg, nm) ==
    CASE seg.k = "all" -> TRUE
      [] seg.k = "ext" -> nm.ext = seg.v
      [] seg.k = "dot" -> nm.ext # ""
      [] seg.k = "lit" -> nm = Nm(seg.v, "")
      [] OTHER -> FALSE

RECURSIVE Select(_, _, _)
\* the entries the segments select, starting from the directories in bases
Select(f, bases, segs) ==
    IF segs = <<>> THEN bases
    ELSE LET seg == Head(segs)
             dirOnly == Len(segs) > 1
             from == {b \in bases : IsDir(f, b)}
         IN  IF seg.k = "rec"
             THEN Select(f, from \cup {q \in DOMAIN f : IsDir(f, q) /\ \E b \in from : InParents(b, q)},
                         Tail(segs))
             ELSE Select(f, {q \in DOMAIN f :
                                /\ \E b \in from : Parent(q) = b /\ Len(q) = Len(b) + 1
                                /\ SegMatches(seg, Last(q))
                                /\ dirOnly => IsDir(f, q)},
                         Tail(segs))

\* list(src.glob(g)) if g else [src]
globPaths(f, src, g) == IF g = <<>> THEN {src} ELSE Select(f, {src}, g)

(***************************************************************************)
(* copyFiles: the plan.  A plan is [files, dirs], two functions from       *)
(* source paths to destination paths.                                      *)
(***************************************************************************)
NoHook == [arity |-> 0, kind |-> "none"]

dstPathOf(src, dst, relative, p) ==
    IF relative THEN dst \o RelativeTo(p, src) ELSE Append(dst, Last(p))

\* the paths of one selector that are kept: nothing from the destination folder
keptPaths(f, src, dst, g) ==
    {p \in globPaths(f, src, g) : ~(InParents(src, dst) /\ IsPrefix(dst, p))}

RECURSIVE collected(_, _, _, _, _)
\* a variant that keeps what the first selector matches and drops the rest
collected_firstOnly(f, src, dst, globExp, i) ==
    IF i = 0 THEN {} ELSE IF i = 1 THEN keptPaths(f, src, dst, globExp[1])
    ELSE collected(f, src, dst, globExp, i - 1)

\* the union of what selectors 1..i keep
collected(f, src, dst, globExp, i) ==
    IF i = 0 THEN {} ELSE collected(f, src, dst, globExp, i - 1) \cup keptPaths(f, src, dst, globExp[i])

collectContent(f, src, dst, globExp, relative) ==
    LET all == collected(f, src, dst, globExp, Len(globExp))
    IN  [files |-> [p \in {q \in all : IsFile(f, q)} |-> dstPathOf(src, dst, relative, p)],
         dirs  |-> [p \in {q \in all : IsDir(f, q)} |-> dstPathOf(src, dst, relative, p)]]

\* which selector puts directory p into dirs first: the position of p in the dict
firstSel(f, src, dst, globExp, p) ==
    CHOOSE i \in 1..Len(globExp) :
        /\ p \in keptPaths(f, src, dst, globExp[i])
        /\ \A j \in 1..(i - 1) : p \notin keptPaths(f, src, dst, globExp[j])

\* dict.update for the directories of one batch (same selector, same depth: disjoint subtrees)
batchUpdate(f, plan, dirs0, batch) ==
    LET owner(q) == CHOOSE s \in batch : InParents(s, q)
        fNew == {q \in DOMAIN f : IsFile(f, q) /\ \E s \in batch : InParents(s, q)}
        dNew == {q \in DOMAIN f : IsDir(f, q) /\ \E s \in batch : InParents(s, q)}
    IN  [files |-> [q \in DOMAIN plan.files \cup fNew |->
                       IF q \in fNew THEN dirs0[owner(q)] \o RelativeTo(q, owner(q))
                       ELSE plan.files[q]],
         dirs  |-> [q \in DOMAIN plan.dirs \cup dNew |->
                       IF q \in dNew THEN dirs0[owner(q)] \o RelativeTo(q, owner(q))
                       ELSE plan.dirs[q]]]

RECURSIVE expandFrom(_, _, _, _, _, _, _, _)
\* the loop of _expandSubdirs over the directories of the collected plan in dict order:
\* selector by selector, and within a selector from the top of the tree down
expandFrom(f, src, dst, globExp, dirs0, plan, i, depth) ==
    IF i > Len(globExp) THEN plan
    ELSE IF depth > SetMax({Len(q) : q \in DOMAIN f})
         THEN expandFrom(f, src, dst, globExp, dirs0, plan, i + 1, 0)
    ELSE LET batch == {s \in DOMAIN dirs0 :
                          Len(s) = depth /\ firstSel(f, src, dst, globExp, s) = i}
         IN  expandFrom(f, src, dst, globExp, dirs0,
                        IF batch = {} THEN plan ELSE batchUpdate(f, plan, dirs0, batch),
                        i, depth + 1)

expandSubdirs(f, src, dst, globExp, plan) ==
    expandFrom(f, src, dst, globExp, plan.dirs, plan, 1, 0)

(***************************************************************************)
(* The rename hook.  A hook is [arity, kind]; what the user function       *)
(* returns depends on the arguments it is called with:                     *)
(*   "suffix"   lambda p: p.parent / (p.stem + "_h" + p.suffix)            *)
(*   "srcname"  lambda src, dst: dst.parent / (src.stem + "_s" + src.suffix)*)
(*   "outside"  lambda p: Path("some") / p.name                            *)
(*   "dotdot"   lambda p: dst / ".." / "evil" / p.name                     *)
(*   "root"     lambda p: dst                                              *)
(*   "ternary"  lambda a, b, c: ...                                        *)
(*   "identity" lambda p: p                                                *)
(***************************************************************************)
Restem(nm, sfx) == [nm EXCEPT !.stem = nm.stem \o sfx]

userFun(hook, dstRoot, args) ==
    LET p == args[Len(args)]
    IN  CASE hook.kind = "suffix"  -> Append(Parent(p), Restem(Last(p), "_h"))
          [] hook.kind = "srcname" -> Append(Parent(p), Restem(Last(args[1]), "_s"))
          [] hook.kind = "outside" -> <<Nm("some", ""), Last(p)>>
          [] hook.kind = "dotdot"  -> dstRoot \o <<DotDot, Nm("evil", ""), Last(p)>>
          [] hook.kind = "root"    -> dstRoot
          [] OTHER -> p

\* a variant that accepts every signature
verifyRenameFun_lenient(hook) == ""

verifyRenameFun(hook) ==
    IF hook = NoHook THEN "" ELSE IF hook.arity \notin {1, 2} THEN "ValueError" ELSE ""

\* _renameFunExtended(fileSrc, fileDst)
renameFunExtended(hook, dstRoot, fileSrc, fileDst) ==
    LET args == IF hook.arity = 1 THEN <<fileDst>> ELSE <<fileSrc, fileDst>>
        out == userFun(hook, dstRoot, args)
    IN  [args |-> args, out |-> out, err |-> IF InParents(dstRoot, out) THEN "" ELSE "ValueError"]

renameFiles(plan, hook, dstRoot) ==
    IF hook = NoHook THEN [err |-> "", files |-> plan.files, dirs |-> plan.dirs, calls |-> {}]
    ELSE LET r(k) == renameFunExtended(hook, dstRoot, k, plan.files[k])
             files == [k \in DOMAIN plan.files |-> r(k).out]
         IN  [err |-> IF \E k \in DOMAIN plan.files : r(k).err # "" THEN "ValueError" ELSE "",
              files |-> files,
              dirs |-> [d \in {Parent(k) : k \in DOMAIN files} |->
                           Parent(files[CHOOSE k \in DOMAIN files : Parent(k) = d])],
              calls |-> {r(k).args : k \in DOMAIN plan.files}]

(***************************************************************************)
(* copyFiles: the execution.                                               *)
(***************************************************************************)
\* sorted(chain(files.items(), dirs.items()))
sortedItems(files, dirs) ==
    LET keys == SortedPaths(DOMAIN files \cup DOMAIN dirs)
    IN  [i \in 1..Len(keys) |->
            <<keys[i], IF keys[i] \in DOMAIN files THEN files[keys[i]] ELSE dirs[keys[i]]>>]

\* what one copySingleFile call of the batch did
itemDone(it, r) ==
    [src |-> it[1], dst |-> it[2], eff |-> r.dst, ret |-> r.ret, xfer |-> r.xfer]

RECURSIVE runItems(_, _, _, _, _, _)
RECURSIVE nextItem(_, _, _, _, _, _, _)
\* after the copySingleFile call r of the next item: an exception ends the loop
nextItem(f, items, done, force, mv, counted, r) ==
    IF r.ret = "raise"
    THEN [err |-> r.err, fs |-> r.fs, items |-> Append(done, itemDone(items[Len(done) + 1], r))]
    ELSE runItems(r.fs, items, Append(done, itemDone(items[Len(done) + 1], r)), force, mv, counted)

\* _copyFiles: one copySingleFile per item, until one raises
runItems(f, items, done, force, mv, counted) ==
    IF Len(done) = Len(items) THEN [err |-> "", fs |-> f, items |-> done]
    ELSE nextItem(f, items, done, force, mv, counted,
                  copySingleFile(f, {}, items[Len(done) + 1][1], items[Len(done) + 1][2],
                                 force, mv, counted, FALSE))

\* a variant that returns only the files that arrived at their planned place
executed_reportsArrived(plan, run) ==
    [plan EXCEPT !.err = run.err, !.fs = run.fs, !.items = run.items,
                 !.files = [k \in {q \in DOMAIN plan.files : Exists(run.fs, plan.files[q])}
                               |-> plan.files[k]]]

\* the plan with the outcome of its execution
executed(plan, run) == [plan EXCEPT !.err = run.err, !.fs = run.fs, !.items = run.items]

\* a variant of the last step that transfers in a dry run too
finishCopy_ignoresListOnly(f, plan, dataToCopy, force, mv, listOnly, counted) ==
    executed(plan, runItems(f, dataToCopy, <<>>, force, mv, counted))

\* the end of copyFiles: return the plan in a dry run, else transfer and return it
finishCopy(f, plan, dataToCopy, force, mv, listOnly, counted) ==
    IF listOnly THEN plan
    ELSE executed(plan, runItems(f, dataToCopy, <<>>, force, mv, counted))

(***************************************************************************)
(* The result of copyFiles: err ("" when it returns), the returned maps    *)
(* files and dirs, the filesystem after the call, and what the call did on *)
(* the way: globbed (the selectors were evaluated), planned (the files map *)
(* handed to the rename pass), calls (the argument lists the hook is       *)
(* called with when the rename pass runs to its end) and items (the        *)
(* copySingleFile calls made, in order).                                   *)
(***************************************************************************)
NoResult(f) ==
    [err |-> "", files |-> <<>>, dirs |-> <<>>, planned |-> <<>>, fs |-> f,
     items |-> <<>>, calls |-> {}, globbed |-> FALSE]

\* copyFiles from `if listOnly` on: ren is what _renameFiles made of the expanded plan
afterRename(f, force, mv, listOnly, hook, counted, dataFast, planned, ren) ==
    IF ren.err # ""
    THEN [NoResult(f) EXCEPT !.err = ren.err, !.files = ren.files, !.dirs = ren.dirs,
                             !.planned = planned, !.calls = ren.calls, !.globbed = TRUE]
    ELSE finishCopy(f, [NoResult(f) EXCEPT !.files = ren.files, !.dirs = ren.dirs,
                                           !.planned = planned, !.calls = ren.calls,
                                           !.globbed = TRUE],
                    IF hook = NoHook THEN dataFast ELSE sortedItems(ren.files, <<>>),
                    force, mv, listOnly, counted)

\* copyFiles from `files, dirs = _renameFiles(...)` on: exp is the expanded plan
afterExpand(f, dst, force, mv, listOnly, hook, counted, dataFast, exp) ==
    afterRename(f, force, mv, listOnly, hook, counted, dataFast, exp.files,
                renameFiles(exp, hook, dst))

\* copyFiles from `dataFast = ...` on: coll is what _collectContent returned
afterCollect(f, src, dst, globExp, force, mv, listOnly, hook, counted, coll) ==
    afterExpand(f, dst, force, mv, listOnly, hook, counted, sortedItems(coll.files, coll.dirs),
                expandSubdirs(f, src, dst, globExp, coll))

copyFiles(f, src0, dst0, relative, globExp, force, mv, listOnly, hook, counted) ==
    IF verifyRenameFun(hook) # "" THEN [NoResult(f) EXCEPT !.err = verifyRenameFun(hook)]
    ELSE afterCollect(f, Resolve(src0), Resolve(dst0), globExp, force, mv, listOnly, hook, counted,
                      collectContent(f, Resolve(src0), Resolve(dst0), globExp, relative))

(***************************************************************************)
(* SpecCount: a directory that fills up, and ensureCountedPath called on   *)
(* it.  Entries appear through Touch: the files and folders callers and    *)
(* other programs put there, among them names this function hands out.     *)
(***************************************************************************)
MaxEntries == 2

MaxMinCount == 8

MaxStep == 2

DirD == <<Nm("d", "")>>

DirE == <<Nm("e", "")>>

TouchNames ==
    {Nm("f", "t")}
    \cup {Counted(Nm("f", "t"), c) : c \in {<<>>, <<0>>, <<Sp, 1>>, <<9>>}}
    \cup {Counted(Nm("g", "t"), <<0, 9>>)}

\* what appears in the directory: regular files, and a folder without a suffix
TouchEntries ==
    {[name |-> nm, kind |-> 1] : nm \in TouchNames}
    \cup {[name |-> Counted(Nm("f", ""), <<0, 7>>), kind |-> 0], [name |-> Nm("f", ""), kind |-> 0]}

\* the directories the runs start from: an empty one, and file.txt, file-01.txt, file-05.txt
SeedDirs ==
    {{}, {Nm("f", "t"), Counted(Nm("f", "t"), <<0, 1>>), Counted(Nm("f", "t"), <<0, 5>>)}}

\* (ensureParent, disable) as the callers of this repository combine them
Switches ==
    {[ensureParent |-> TRUE, disable |-> FALSE], [ensureParent |-> FALSE, disable |-> FALSE],
     [ensureParent |-> TRUE, disable |-> TRUE]}

CountPaths == {Append(DirD, Nm("f", "t")), Append(DirE, Nm("f", "t")), Append(DirD, Nm("f", ""))}

Formats ==
    {[nph |-> 1, w |-> 2, zero |-> TRUE], [nph |-> 1, w |-> 0, zero |-> TRUE],
     [nph |-> 1, w |-> 2, zero |-> FALSE], [nph |-> 0, w |-> 0, zero |-> TRUE],
     [nph |-> 2, w |-> 2, zero |-> TRUE]}

MinCounts == {0, DefaultMinCount, MaxMinCount}

Steps == 1..MaxStep

SeededFs(names) ==
    [q \in {Root, DirD} \cup {Append(DirD, nm) : nm \in names} |-> IF Len(q) < 2 THEN 0 ELSE 1]

InitCount ==
    /\ \E names \in SeedDirs : fs = SeededFs(names)
    /\ cache = {}
    /\ last = [op |-> "idle"]
    /\ n = 0

Idle == last.op = "idle"

\* the caller is done with the result of the call just made
Clear ==
    /\ ~Idle
    /\ last' = [op |-> "idle"]
    /\ UNCHANGED <<fs, cache, n>>

Touch(e) ==
    /\ Idle
    /\ n < MaxEntries
    /\ ~Exists(fs, Append(DirD, e.name))
    /\ fs' = (Append(DirD, e.name) :> e.kind) @@ fs
    /\ n' = n + 1
    /\ UNCHANGED <<cache, last>>

CallEnsureCountedPath(path, fmt, skipFirst, minCount, step, ensureParent, disable) ==
    LET r == ensureCountedPath(fs, path, fmt, skipFirst, minCount, step, ensureParent, disable)
    IN  /\ Idle
        /\ fs' = r.fs
        /\ last' = [op |-> "ensureCountedPath", path |-> path, fmt |-> fmt,
                    skipFirst |-> skipFirst, minCount |-> minCount, step |-> step,
                    ensureParent |-> ensureParent, disable |-> disable,
                    pre |-> fs, res |-> [err |-> r.err, path |-> r.path]]
        /\ UNCHANGED <<cache, n>>

NextCount ==
    \/ \E e \in TouchEntries : Touch(e)
    \/ Clear
    \/ \E path \in CountPaths, fmt \in Formats, skipFirst \in BOOLEAN,
          minCount \in MinCounts, step \in Steps, sw \in Switches :
          CallEnsureCountedPath(path, fmt, skipFirst, minCount, step,
                                sw.ensureParent, sw.disable)

SpecCount == InitCount /\ [][NextCount]_vars

\* the call recorded in `last` is an ensureCountedPath call that scanned an existing parent
Scanned ==
    /\ last.op = "ensureCountedPath"
    /\ ~last.disable
    /\ Exists(last.pre, Parent(last.path))

\* the siblings of the path the scan recognises as counted, in the state before the call
CountedSiblings ==
    {q \in Children(last.pre, Parent(last.path)) :
        /\ Last(q).stem = Last(last.path).stem
        /\ Last(q).ext = Last(last.path).ext
        /\ Last(q).aff
        /\ Last(q).num # <<>>
        /\ AllDigits(Last(q).num)}

(***************************************************************************)
(* C1  Collision-freedom: whenever the parent of `path` exists and the     *)
(* call is not disabled, a path that ensureCountedPath returns does not    *)
(* exist on disk, whatever the format, skipFirst, minCount and step.       *)
(***************************************************************************)
C1_CollisionFree ==
    (Scanned /\ last.res.err = "") => ~Exists(fs, last.res.path)

\* a call that scanned, found counted siblings next to an existing `path`, and returned
C1_Witness ==
    /\ Scanned
    /\ last.res.err = ""
    /\ Exists(last.pre, last.path)
    /\ CountedSiblings # {}
    /\ last.res.path # last.path

NumberedSiblings ==
    {q \in Children(last.pre, Parent(last.path)) :
        /\ Last(q).stem = Last(last.path).stem
        /\ Last(q).ext = Last(last.path).ext
        /\ Last(q).aff
        /\ Last(q).num # <<>>}

\* `path` with the count c in the format of the recorded call
WithCount(c) ==
    Append(Parent(last.path), Counted(Last(last.path), FormatCount(last.fmt, c)))

(***************************************************************************)
(* C15  No counted sibling, parent exists: a path that does not exist is   *)
(* returned unmodified with skipFirst and with minCount without it; a path *)
(* that exists (file or folder) is returned with minCount in both cases.   *)
(***************************************************************************)
C15_FirstCount ==
    (Scanned /\ NumberedSiblings = {} /\ last.fmt.nph = 1) =>
        /\ last.res.err = ""
        /\ last.res.path = IF ~Exists(last.pre, last.path) /\ last.skipFirst
                           THEN last.path ELSE WithCount(last.minCount)

\* the path exists, skipFirst is set, nothing counted lies beside it: minCount is used
C15_Witness ==
    /\ Scanned /\ NumberedSiblings = {} /\ last.fmt.nph = 1
    /\ last.res.err = ""
    /\ IsDir(last.pre, last.path) /\ last.skipFirst
    /\ last.minCount = MaxMinCount
    /\ last.res.path = WithCount(MaxMinCount)


(***************************************************************************)
(* C19  A format without exactly one integer placeholder (none, or more    *)
(* than one) is rejected with the invalid-format error before the          *)
(* filesystem is touched: the parent directory is not created.             *)
(***************************************************************************)
C19_FormatRejectedFirst ==
    (last.op = "ensureCountedPath" /\ last.fmt.nph # 1) =>
        (last.res.err = "ValueError" /\ fs = last.pre)


\* newCount of the recorded call: the largest count among the counted siblings, plus step
NextCountOf == SetMax({ParseInt(Last(q).num) : q \in CountedSiblings}) + last.step

C21_SkipFirstUnmodified ==
    (Scanned /\ CountedSiblings = {} /\ last.fmt.nph = 1 /\ last.res.err = "") =>
        last.res.path = IF last.skipFirst THEN last.path ELSE WithCount(last.minCount)

(***************************************************************************)
(* C21 as the code has it: with skipFirst the path is returned unmodified  *)
(* only when it does not exist; a path that exists is returned with        *)
(* minCount, as it is without skipFirst.  The call returns unless the path *)
(* with minCount exists already under a count the scan does not read (a    *)
(* blank-padded one).                                                      *)
(***************************************************************************)
C21_SkipFirstUnlessExists ==
    (Scanned /\ CountedSiblings = {} /\ last.fmt.nph = 1) =>
        /\ last.res.err \in {"", "AssertionError"}
        /\ (last.fmt.zero \/ last.fmt.w <= 1) => last.res.err = ""
        /\ last.res.err = "AssertionError" => Exists(last.pre, WithCount(last.minCount))
        /\ last.res.err = "" =>
              last.res.path = IF last.skipFirst /\ ~Exists(last.pre, last.path)
                              THEN last.path ELSE WithCount(last.minCount)

\* the file exists beside a sibling whose count the scan does not read: skipFirst gives
\* the path with minCount
C21_Witness ==
    /\ Scanned /\ CountedSiblings = {} /\ NumberedSiblings # {} /\ last.fmt.nph = 1
    /\ last.res.err = ""
    /\ IsFile(last.pre, last.path) /\ last.skipFirst /\ last.minCount = 0
    /\ last.res.path = WithCount(0)


(***************************************************************************)
(* SpecCopy: copyFiles called on a source tree.  The tree holds nested     *)
(* folders, a folder that holds nothing but a folder, and two files of the *)
(* same name in different folders; the destination is a folder next to the *)
(* source or one inside it, absent or already there.                       *)
(***************************************************************************)
MaxCopies == 1

In == <<Nm("in", "")>>

Out == <<Nm("out", "")>>

InOut == In \o <<Nm("a", ""), Nm("out", "")>>

PathOf(names) == [i \in 1..Len(names) |-> Nm(names[i][1], names[i][2])]

TreeNested ==
    (Root :> 0)
    @@ (In :> 0)
    @@ (PathOf(<<<<"in", "">>, <<"a", "">>>>) :> 0)
    @@ (PathOf(<<<<"in", "">>, <<"a", "">>, <<"b", "">>>>) :> 0)
    @@ (PathOf(<<<<"in", "">>, <<"a", "">>, <<"b", "">>, <<"g", "x">>>>) :> 1)
    @@ (PathOf(<<<<"in", "">>, <<"c", "">>>>) :> 0)
    @@ (PathOf(<<<<"in", "">>, <<"c", "">>, <<"f", "x">>>>) :> 2)
    @@ (PathOf(<<<<"in", "">>, <<"c", "">>, <<"g", "x">>>>) :> 4)
    @@ (PathOf(<<<<"in", "">>, <<"f", "x">>>>) :> 3)

\* the same tree with the folder a/out and a file in it
TreeInside == (InOut :> 0) @@ (Append(InOut, Nm("g", "x")) :> 5) @@ TreeNested

\* what other programs put at the destination: the folder itself, a file in it
PutEntries == {[path |-> Out, kind |-> 0], [path |-> Append(Out, Nm("f", "x")), kind |-> 6]}

GNone == <<>>

GStar == <<Seg("all", "")>>

GRecAll == <<Seg("rec", ""), Seg("all", "")>>

GRecX == <<Seg("rec", ""), Seg("ext", "x")>>

GLitA == <<Seg("lit", "a")>>

\* globExp: None, "*", "**/*", "**/*.x", ["a", "**/*.x"]
GlobExps == {<<GNone>>, <<GStar>>, <<GRecAll>>, <<GRecX>>, <<GLitA, GRecX>>}

Hooks ==
    {NoHook, [arity |-> 1, kind |-> "suffix"], [arity |-> 2, kind |-> "srcname"],
     [arity |-> 1, kind |-> "outside"], [arity |-> 1, kind |-> "dotdot"],
     [arity |-> 1, kind |-> "root"], [arity |-> 3, kind |-> "ternary"]}

\* (force, move, counted) as one call combines them
Modes ==
    {[force |-> FALSE, mv |-> FALSE, counted |-> "no"], [force |-> TRUE, mv |-> FALSE, counted |-> "no"],
     [force |-> FALSE, mv |-> TRUE, counted |-> "no"], [force |-> FALSE, mv |-> FALSE, counted |-> "count"],
     [force |-> TRUE, mv |-> TRUE, counted |-> "no"]}

InitCopy ==
    /\ fs = TreeNested
    /\ cache = {}
    /\ last = [op |-> "idle"]
    /\ n = 0

Put(e) ==
    /\ Idle
    /\ ~Exists(fs, e.path)
    /\ IsDir(fs, Parent(e.path))
    /\ fs' = (e.path :> e.kind) @@ fs
    /\ UNCHANGED <<cache, last, n>>

\* what a copyFiles call leaves in `last`
CopyRecord(f, src, dst, relative, globExp, force, mv, listOnly, hook, counted, r) ==
    [op |-> "copyFiles", src |-> src, dst |-> dst, relative |-> relative,
     globExp |-> globExp, force |-> force, mv |-> mv, listOnly |-> listOnly,
     hook |-> hook, counted |-> counted, pre |-> f,
     res |-> [err |-> r.err, files |-> r.files, dirs |-> r.dirs, planned |-> r.planned,
              items |-> r.items, calls |-> r.calls, globbed |-> r.globbed]]

\* copyFiles(src, dst, ..., listOnly=False)
CallCopyFiles(src, dst, relative, globExp, force, mv, hook, counted) ==
    /\ Idle
    /\ n < MaxCopies
    /\ \E r \in {copyFiles(fs, src, dst, relative, globExp, force, mv, FALSE, hook, counted)} :
        /\ fs' = r.fs
        /\ last' = CopyRecord(fs, src, dst, relative, globExp, force, mv, FALSE, hook, counted, r)
    /\ n' = n + 1
    /\ UNCHANGED cache

NextCopy ==
    \/ \E e \in PutEntries : Put(e)
    \/ Clear
    \/ \E relative \in BOOLEAN, globExp \in GlobExps, m \in Modes, hook \in Hooks :
          CallCopyFiles(In, Out, relative, globExp, m.force, m.mv, hook, m.counted)

SpecCopy == InitCopy /\ [][NextCopy]_vars

(***************************************************************************)
(* SpecDry: copyFiles(listOnly=True) called any number of times, with      *)
(* every combination of the other arguments, towards a destination next to *)
(* the source or inside it.                                                *)
(***************************************************************************)
CopyDsts == {Out, InOut}

InitDry ==
    /\ fs \in {TreeNested, TreeInside}
    /\ cache = {}
    /\ last = [op |-> "idle"]
    /\ n = 0

\* copyFiles(src, dst, ..., listOnly=True)
CallListOnly(src, dst, relative, globExp, force, mv, hook, counted) ==
    /\ Idle
    /\ \E r \in {copyFiles(fs, src, dst, relative, globExp, force, mv, TRUE, hook, counted)} :
        /\ fs' = r.fs
        /\ last' = CopyRecord(fs, src, dst, relative, globExp, force, mv, TRUE, hook, counted, r)
    /\ UNCHANGED <<cache, n>>

NextDry ==
    \/ \E e \in PutEntries : Put(e)
    \/ Clear
    \/ \E dst \in CopyDsts, relative \in BOOLEAN, globExp \in GlobExps, force \in BOOLEAN,
          mv \in BOOLEAN, hook \in Hooks, counted \in {"no", "count"} :
          CallListOnly(In, dst, relative, globExp, force, mv, hook, counted)

SpecDry == InitDry /\ [][NextDry]_vars

(***************************************************************************)
(* Properties of copyFiles, stated on the call recorded in `last`.         *)
(***************************************************************************)
LastCopy == last.op = "copyFiles"

SrcRoot == Resolve(last.src)

DstRoot == Resolve(last.dst)

\* a clean destination: nothing is there yet
CleanDst == ~Exists(last.pre, DstRoot)

Range(m) == {m[k] : k \in DOMAIN m}

\* what copyFiles(listOnly=True) returns on the inputs of the recorded call
DryPlan ==
    copyFiles(last.pre, last.src, last.dst, last.relative, last.globExp, last.force, last.mv,
              TRUE, last.hook, last.counted)

\* the same for the i-th selector on its own
SinglePlan(i) ==
    copyFiles(last.pre, last.src, last.dst, last.relative, <<last.globExp[i]>>, last.force,
              last.mv, TRUE, last.hook, last.counted)

\* the files the selectors match themselves, before subtree expansion
SelectedFiles ==
    DOMAIN collectContent(last.pre, SrcRoot, DstRoot, last.globExp, last.relative).files

\* C2: what exists under dst after an executed copyFiles on a clean destination is exactly
\* the set of values of the files and dirs maps that the dry run returns on the same inputs
C2_DryRunEqualsExecution ==
    (LastCopy /\ ~last.listOnly /\ CleanDst /\ last.res.err = "") =>
        {p \in DOMAIN fs : InParents(DstRoot, p)}
            = (Range(DryPlan.files) \cup Range(DryPlan.dirs)) \ {DstRoot}

\* C3: a dry run leaves the filesystem as it was and makes no copySingleFile call,
\* whatever the other arguments are and however often it is repeated
C3_ListOnlyFrame ==
    (LastCopy /\ last.listOnly) => (fs = last.pre /\ last.res.items = <<>> /\ cache = {})

C3_Witness ==
    /\ LastCopy /\ last.listOnly /\ last.res.err = ""
    /\ last.force /\ last.mv /\ last.counted = "count" /\ last.hook.kind = "suffix"
    /\ DOMAIN last.res.files # {}
    /\ Exists(fs, Append(Out, Nm("f", "x")))

\* C4: when dst lies inside src, no key of the returned maps is dst or lies under dst
C4_SelfCopyExclusion ==
    (LastCopy /\ InParents(SrcRoot, DstRoot) /\ last.res.err = "") =>
        \A k \in DOMAIN last.res.files \cup DOMAIN last.res.dirs : ~IsPrefix(DstRoot, k)

\* C5: when the hook returns, for some planned file, a path that is not inside the
\* destination root, copyFiles raises and the filesystem is as it was before the call
C5_RenameContainment ==
    (/\ LastCopy /\ last.hook # NoHook /\ last.res.globbed
     /\ \E k \in DOMAIN last.res.planned :
            ~IsPrefix(DstRoot, Resolve(renameFunExtended(last.hook, DstRoot, k,
                                                         last.res.planned[k]).out)))
    => (last.res.err = "ValueError" /\ fs = last.pre)

\* C6: a hook with neither 1 nor 2 parameters makes copyFiles raise before the selectors
\* are evaluated, before the hook is called and before the filesystem changes; a hook with
\* 1 parameter is called as f(dst), one with 2 parameters as f(src, dst)
C6_SignatureChecked ==
    (LastCopy /\ last.hook # NoHook) =>
        /\ last.hook.arity \notin {1, 2} =>
              /\ last.res.err = "ValueError"
              /\ ~last.res.globbed
              /\ last.res.calls = {}
              /\ last.res.items = <<>>
              /\ fs = last.pre
        /\ last.hook.arity = 1 =>
              /\ last.res.globbed
              /\ last.res.calls = {<<last.res.planned[k]>> : k \in DOMAIN last.res.planned}
        /\ last.hook.arity = 2 =>
              /\ last.res.globbed
              /\ last.res.calls = {<<k, last.res.planned[k]>> : k \in DOMAIN last.res.planned}

C6_Witness ==
    /\ LastCopy /\ ~last.listOnly /\ last.hook.arity = 3 /\ last.res.err = "ValueError"
    /\ last.globExp = <<GRecAll>>

\* C7: the source files a list of selectors selects are the union of what each selector
\* selects on its own; and a copy without overwriting, counting or renaming, in relative
\* mode onto a clean destination, returns and leaves in the destination exactly those
\* files, at the same relative paths and with the content of their sources
C7_GlobUnion ==
    (LastCopy /\ last.res.globbed) =>
        /\ DOMAIN last.res.files
               = UNION {DOMAIN SinglePlan(i).files : i \in 1..Len(last.globExp)}
        /\ (/\ ~last.listOnly /\ last.relative /\ CleanDst
            /\ last.hook = NoHook /\ ~last.force /\ last.counted = "no") =>
              /\ last.res.err = ""
              /\ {p \in DOMAIN fs : IsFile(fs, p) /\ InParents(DstRoot, p)}
                     = {DstRoot \o RelativeTo(k, SrcRoot) : k \in DOMAIN last.res.files}
              /\ \A k \in DOMAIN last.res.files :
                     fs[DstRoot \o RelativeTo(k, SrcRoot)] = last.pre[k]

C7_Witness ==
    /\ LastCopy /\ ~last.listOnly /\ last.relative /\ CleanDst
    /\ last.hook = NoHook /\ ~last.force /\ last.counted = "no"
    /\ last.globExp = <<GLitA, GRecX>>
    /\ Cardinality(DOMAIN last.res.files) = 4
    /\ \A k \in DOMAIN last.res.files : IsFile(fs, DstRoot \o RelativeTo(k, SrcRoot))

\* C8: in a flat copy, when two selected source files in different folders have the same
\* name, the call returns and the files map has fewer distinct values than keys
C8_FlatCollisionVisible ==
    (/\ LastCopy /\ ~last.relative /\ last.hook = NoHook
     /\ \E k1, k2 \in SelectedFiles :
            /\ Last(k1) = Last(k2)
            /\ Parent(k1) # Parent(k2)
            /\ Parent(k1) # SrcRoot /\ Parent(k2) # SrcRoot)
    => (/\ last.res.err = ""
        /\ Cardinality(Range(last.res.files)) < Cardinality(DOMAIN last.res.files))

(***************************************************************************)
(* SpecSingle: copySingleFile called on single files and folders, with or  *)
(* without a cache the caller keeps across calls, and copyFiles called     *)
(* without overwriting, in any order.                                      *)
(***************************************************************************)
MaxSingles == 2

\* a file, a folder, and a path where nothing is
SingleSrcs == {Append(In, Nm("f", "x")), Append(In, Nm("c", "")), Append(In, Nm("y", "x"))}

SingleDsts == {Append(Out, Nm("f", "x")), Append(Out, Nm("c", "")), Out}

InitSingle ==
    /\ fs = TreeNested
    /\ cache = {}
    /\ last = [op |-> "idle"]
    /\ n = 0

\* copySingleFile(src, dst, force, move, count, cache): the caller passes its cache or None
CallCopySingleFile(src, dst, force, mv, count, useCache) ==
    /\ Idle
    /\ n < MaxSingles
    /\ \E r \in {copySingleFile(fs, IF useCache THEN cache ELSE {}, src, dst, force, mv, count,
                                useCache)} :
        /\ fs' = r.fs
        /\ cache' = IF useCache THEN r.cache ELSE cache
        /\ last' = [op |-> "copySingleFile", src |-> src, dst |-> dst, force |-> force,
                    mv |-> mv, count |-> count, useCache |-> useCache, pre |-> fs,
                    preCache |-> cache,
                    res |-> [ret |-> r.ret, err |-> r.err, src |-> r.src, dst |-> r.dst,
                             xfer |-> r.xfer]]
    /\ n' = n + 1

NextSingle ==
    \/ \E e \in PutEntries : Put(e)
    \/ Clear
    \/ \E src \in SingleSrcs, dst \in SingleDsts, force \in BOOLEAN, mv \in BOOLEAN,
          count \in {"no", "count", "skipFirst"}, useCache \in BOOLEAN :
          CallCopySingleFile(src, dst, force, mv, count, useCache)
    \/ \E relative \in BOOLEAN, globExp \in {<<GNone>>, <<GRecAll>>}, mv \in BOOLEAN :
          CallCopyFiles(In, Out, relative, globExp, FALSE, mv, NoHook, "no")

SpecSingle == InitSingle /\ [][NextSingle]_vars

LastSingle == last.op = "copySingleFile"

\* the files at or under p keep their content from the state before the call
Kept(p) ==
    \A q \in DOMAIN last.pre :
        (IsFile(last.pre, q) /\ IsPrefix(p, q)) => (IsFile(fs, q) /\ fs[q] = last.pre[q])

\* the call found its (src, dst) pair in the cache it was given
CacheHit ==
    last.useCache /\ Exists(last.pre, last.res.src) /\ <<last.res.src, last.res.dst>> \in last.preCache

\* C10 as stated: without force, the files of the destination keep their content, and an
\* item whose destination exists already is reported as failed
C10_NeverOverwrites ==
    /\ (LastSingle /\ ~last.force) =>
          /\ Kept(Resolve(last.dst)) /\ Kept(last.res.dst)
          /\ Exists(last.pre, last.res.dst) => last.res.ret = "False"
    /\ (LastCopy /\ ~last.force) =>
          /\ Kept(DstRoot)
          /\ \A i \in 1..Len(last.res.items) :
                 Exists(last.pre, last.res.items[i].eff) => last.res.items[i].ret = "False"

\* C10, amended: ... is reported as failed, unless its (src, dst) pair is in the cache
\* passed to copySingleFile: then dst is returned and nothing is transferred
C10_NeverOverwritesUnlessCached ==
    /\ (LastSingle /\ ~last.force) =>
          /\ Kept(Resolve(last.dst)) /\ Kept(last.res.dst)
          /\ (Exists(last.pre, last.res.dst) /\ ~CacheHit) => last.res.ret = "False"
          /\ CacheHit => (last.res.ret = "dst" /\ ~last.res.xfer /\ fs = last.pre)
    /\ (LastCopy /\ ~last.force) =>
          /\ Kept(DstRoot)
          /\ \A i \in 1..Len(last.res.items) :
                 Exists(last.pre, last.res.items[i].eff) => last.res.items[i].ret = "False"

C10_Witness ==
    /\ LastSingle /\ ~last.force /\ last.mv /\ last.count = "no"
    /\ IsFile(last.pre, last.res.src)
    /\ IsFile(last.pre, last.res.dst) /\ last.pre[last.res.dst] # last.pre[last.res.src]
    /\ last.res.ret = "False"

\* the hooks of the model decide the folder of a renamed file from the folder of its source
RenamedDirsDetermined ==
    (last.op = "copyFiles" /\ last.hook # NoHook /\ last.res.globbed) =>
        \A k1, k2 \in DOMAIN last.res.files :
            Parent(k1) = Parent(k2) => Parent(last.res.files[k1]) = Parent(last.res.files[k2])

(***************************************************************************)
(* SpecCache: copySingleFile calls that share one cache, on a file and on  *)
(* a folder; between the calls another program may remove what is at a     *)
(* destination.                                                            *)
(***************************************************************************)
MaxCached == 3

CacheSrcs == {Append(In, Nm("f", "x")), Append(In, Nm("c", ""))}

CacheDsts == {Append(Out, Nm("f", "x")), Append(Out, Nm("c", ""))}

InitCache ==
    /\ fs = TreeNested
    /\ cache = {}
    /\ last = [op |-> "idle"]
    /\ n = 0

\* copySingleFile(src, dst, force, move, cache=cache)
CallCached(src, dst, force, mv) ==
    /\ Idle
    /\ n < MaxCached
    /\ \E r \in {copySingleFile(fs, cache, src, dst, force, mv, "no", TRUE)} :
        /\ fs' = r.fs
        /\ cache' = r.cache
        /\ last' = [op |-> "copySingleFile", src |-> src, dst |-> dst, force |-> force,
                    mv |-> mv, count |-> "no", useCache |-> TRUE, pre |-> fs,
                    preCache |-> cache,
                    res |-> [ret |-> r.ret, err |-> r.err, src |-> r.src, dst |-> r.dst,
                             xfer |-> r.xfer]]
    /\ n' = n + 1

\* what is at a destination is removed
Unlink(p) ==
    /\ Idle
    /\ Exists(fs, p)
    /\ fs' = Remove(fs, p)
    /\ UNCHANGED <<cache, last, n>>

NextCache ==
    \/ Clear
    \/ \E p \in CacheDsts : Unlink(p)
    \/ \E src \in CacheSrcs, dst \in CacheDsts, force \in BOOLEAN, mv \in BOOLEAN :
          CallCached(src, dst, force, mv)

SpecCache == InitCache /\ [][NextCache]_vars

\* the source of the recorded call exists and its (src, dst) pair is in the cache passed
InCache ==
    /\ LastSingle /\ last.useCache
    /\ Exists(last.pre, last.res.src)
    /\ <<last.res.src, last.res.dst>> \in last.preCache

C12_CacheOnlyBySuccess ==
    LastSingle =>
        /\ last.preCache \subseteq cache
        /\ \A pair \in cache \ last.preCache :
               /\ pair = <<last.res.src, last.res.dst>>
               /\ last.useCache /\ last.res.xfer /\ last.res.ret = "dst"
               /\ Exists(fs, last.res.dst)
        /\ last.res.ret # "dst" => cache = last.preCache

\* a second pair is recorded beside the first
C12_Witness ==
    /\ LastSingle /\ last.res.ret = "dst" /\ last.res.xfer
    /\ last.preCache # {} /\ cache # last.preCache

(***************************************************************************)
(* The two ways of executing a plan: dataFast (no hook) and the expanded   *)
(* files (hook set).                                                       *)
(***************************************************************************)
IdentityHook == [arity |-> 1, kind |-> "identity"]

\* the recorded call again, from the same filesystem, with the hook lambda p: p
PerFileRun ==
    copyFiles(last.pre, last.src, last.dst, last.relative, last.globExp, last.force, last.mv,
              FALSE, IdentityHook, last.counted)

\* the entries at and below dst
TreeAt(f, root) == {<<p, f[p]>> : p \in {q \in DOMAIN f : IsPrefix(root, q)}}

\* C13: an execution without hook (whole subtrees) and the execution of the same call with
\* an identity hook (file by file) leave the same files and directories at the destination
C13_FastSlowSameTree ==
    (LastCopy /\ ~last.listOnly /\ last.hook = NoHook /\ last.res.err = "" /\ PerFileRun.err = "") =>
        TreeAt(fs, DstRoot) = TreeAt(PerFileRun.fs, DstRoot)

\* C14: the files and dirs maps of an executed copyFiles are those of the dry run on the
\* same arguments and the same starting filesystem, with no hook, a unary or a binary one;
\* a call that the dry run rejects is rejected with the same error by the execution
C14_PlanIndependentOfExecution ==
    (LastCopy /\ ~last.listOnly) =>
        /\ last.res.files = DryPlan.files
        /\ last.res.dirs = DryPlan.dirs
        /\ DryPlan.err # "" => (last.res.err = DryPlan.err /\ fs = last.pre)

\* an execution with a binary hook that returned and changed the filesystem
C14_Witness ==
    /\ LastCopy /\ ~last.listOnly /\ last.res.err = ""
    /\ last.hook.arity = 2 /\ DOMAIN last.res.files # {}
    /\ fs # last.pre /\ last.res.files = DryPlan.files

(***************************************************************************)
(* SpecWarn: copyFiles with selectors that match nothing, for the three    *)
(* values of verbose ("Verbose if True, only warn if False, and silent if  *)
(* None"), in dry runs and executions.  `last` also holds the selectors a  *)
(* warning was logged for, in order.                                       *)
(***************************************************************************)
MaxWarnCalls == 2

\* "**/*.y"
GRecY == <<Seg("rec", ""), Seg("ext", "y")>>

\* "*/*/*/*"
GDeep == <<Seg("all", ""), Seg("all", ""), Seg("all", ""), Seg("all", "")>>

WarnGlobExps ==
    {<<GRecY>>, <<GDeep, GRecY>>, <<GStar, GRecY>>, <<GRecY, GRecX>>, <<GRecY, GRecY>>,
     <<GRecX>>, <<GNone>>}

Verbosity == {"True", "False", "None"}

WarnHooks == {NoHook, [arity |-> 1, kind |-> "suffix"], [arity |-> 3, kind |-> "ternary"]}

RECURSIVE warned(_, _, _, _, _)
\* a variant that warns whatever verbose is
warned_ignoresVerbose(f, src, globExp, verbose, i) ==
    IF i = 0 THEN <<>>
    ELSE IF globPaths(f, src, globExp[i]) = {}
         THEN Append(warned(f, src, globExp, "False", i - 1), globExp[i])
         ELSE warned(f, src, globExp, "False", i - 1)

\* the logging.warning calls of _collectContent for selectors 1..i
warned(f, src, globExp, verbose, i) ==
    IF i = 0 THEN <<>>
    ELSE IF globPaths(f, src, globExp[i]) = {} /\ verbose # "None"
         THEN Append(warned(f, src, globExp, verbose, i - 1), globExp[i])
         ELSE warned(f, src, globExp, verbose, i - 1)

InitWarn ==
    /\ fs = TreeNested
    /\ cache = {}
    /\ last = [op |-> "idle"]
    /\ n = 0

\* copyFiles(src, dst, globExp=..., verbose=...)
CallVerbose(src, dst, relative, globExp, listOnly, hook, verbose) ==
    /\ Idle
    /\ n < MaxWarnCalls
    /\ \E r \in {copyFiles(fs, src, dst, relative, globExp, FALSE, FALSE, listOnly, hook, "no")} :
        /\ fs' = r.fs
        /\ last' = [verbose |-> verbose,
                    warnings |-> IF r.globbed
                                 THEN warned(fs, Resolve(src), globExp, verbose, Len(globExp))
                                 ELSE <<>>]
                   @@ CopyRecord(fs, src, dst, relative, globExp, FALSE, FALSE, listOnly, hook,
                                 "no", r)
    /\ n' = n + 1
    /\ UNCHANGED cache

NextWarn ==
    \/ \E e \in PutEntries : Put(e)
    \/ Clear
    \/ \E relative, listOnly \in BOOLEAN, globExp \in WarnGlobExps, hook \in WarnHooks,
          verbose \in Verbosity :
          CallVerbose(In, Out, relative, globExp, listOnly, hook, verbose)

SpecWarn == InitWarn /\ [][NextWarn]_vars

\* the positions of the selectors of the recorded call that match nothing
Unmatched == {i \in 1..Len(last.globExp) : globPaths(last.pre, SrcRoot, last.globExp[i]) = {}}

\* the selectors that match something, in their order
MatchedOnly == SelectSeq(last.globExp, LAMBDA g : globPaths(last.pre, SrcRoot, g) # {})

\* the plan of the recorded call without the selectors that match nothing
PlanOfMatched ==
    copyFiles(last.pre, last.src, last.dst, last.relative, MatchedOnly, last.force, last.mv,
              TRUE, last.hook, last.counted)

\* what C16 says apart from the number of warnings: no error, nothing contributed, and
\* nothing returned or done when no selector matches
NothingFromUnmatched ==
    /\ last.res.err = ""
    /\ \A i \in 1..Len(last.warnings) : globPaths(last.pre, SrcRoot, last.warnings[i]) = {}
    /\ last.res.files = PlanOfMatched.files
    /\ last.res.dirs = PlanOfMatched.dirs
    /\ MatchedOnly = <<>> =>
          (last.res.files = <<>> /\ last.res.dirs = <<>> /\ fs = last.pre /\ last.res.items = <<>>)

\* C16 as stated: every selector that matches nothing gives exactly one warning and no
\* error and adds nothing to the plan; when none matches, both maps are empty and the
\* filesystem is unchanged
C16_OneWarningPerUnmatched ==
    (LastCopy /\ last.hook.arity < 3) =>
        (Len(last.warnings) = Cardinality(Unmatched) /\ NothingFromUnmatched)

\* C16 with the silent mode: one warning per selector that matches nothing unless
\* verbose is None, when there is none; the rest as stated
C16_OneWarningUnlessSilent ==
    (LastCopy /\ last.hook.arity < 3) =>
        /\ Len(last.warnings) = IF last.verbose = "None" THEN 0 ELSE Cardinality(Unmatched)
        /\ NothingFromUnmatched

\* an execution with two selectors that both match nothing: two warnings, nothing done
C16_Witness ==
    /\ LastCopy /\ ~last.listOnly /\ last.verbose = "False"
    /\ last.globExp = <<GDeep, GRecY>>
    /\ Len(last.warnings) = 2
    /\ last.res.err = "" /\ last.res.files = <<>> /\ fs = last.pre

\* the recorded copySingleFile call failed softly and changed nothing
ReturnedFalseUnchanged ==
    last.res.ret = "False" /\ fs = last.pre /\ cache = last.preCache

\* C17: a missing source, and a destination that exists when force is false, make
\* copySingleFile return False without raising and without changing the filesystem or the
\* cache, with and without counting
C17_SoftFailures ==
    LastSingle =>
        /\ ~Exists(last.pre, last.res.src) => ReturnedFalseUnchanged
        /\ (Exists(last.pre, last.res.src) /\ ~last.force /\ Exists(last.pre, last.res.dst))
              => ReturnedFalseUnchanged

\* dataToCopy of the recorded call: the items _copyFiles is given
DataToCopy ==
    IF last.hook = NoHook
    THEN sortedItems(collectContent(last.pre, SrcRoot, DstRoot, last.globExp, last.relative).files,
                     collectContent(last.pre, SrcRoot, DstRoot, last.globExp, last.relative).dirs)
    ELSE sortedItems(last.res.files, <<>>)

\* C18: an item of a batch that fails (missing source, existing destination without force,
\* an error raised by the copy or move) fails alone: copyFiles does not raise, every item of
\* the batch is attempted, and what was transferred before stays where it was put
C18_ItemFailuresIsolated ==
    (LastCopy /\ ~last.listOnly /\ DryPlan.err = "") =>
        /\ last.res.err = ""
        /\ Len(last.res.items) = Len(DataToCopy)
        /\ \A i \in 1..Len(last.res.items) :
              last.res.items[i].ret = "dst" => Exists(fs, last.res.items[i].eff)

\* what the hook of the recorded call returns for the planned file k
HookResult(k) == renameFunExtended(last.hook, DstRoot, k, last.res.planned[k]).out

\* C22: the rename pass accepts the results of the hook if and only if each of them is the
\* destination root or lies under it once resolved, results with '..' included; what
\* the returned files map holds then lies inside the destination tree
C22_GateIffInside ==
    (LastCopy /\ last.listOnly /\ last.hook.arity \in {1, 2} /\ DOMAIN last.res.planned # {}) =>
        /\ last.res.err = "" <=>
              \A k \in DOMAIN last.res.planned : IsPrefix(DstRoot, Resolve(HookResult(k)))
        /\ last.res.err = "" =>
              \A k \in DOMAIN last.res.files : IsPrefix(DstRoot, Resolve(last.res.files[k]))

\* the positions of the executed items that write a file to a destination which an
\* earlier item of the batch wrote a file to: the last one of each colliding group
LastOfCollision ==
    {j \in 1..Len(last.res.items) :
        /\ IsFile(last.pre, last.res.items[j].src)
        /\ \E i \in 1..(j - 1) :
              /\ IsFile(last.pre, last.res.items[i].src)
              /\ last.res.items[i].dst = last.res.items[j].dst
        /\ \A k \in (j + 1)..Len(last.res.items) :
              last.res.items[k].dst # last.res.items[j].dst}

\* logging.warning("File already exists: ...") was called for some item of the batch
WarnedExisting ==
    \E i \in 1..Len(last.res.items) :
        /\ last.res.items[i].ret = "False"
        /\ Exists(last.pre, last.res.items[i].src)

\* the file at the destination of every colliding group has the content of the last source
LastWriteWins ==
    \A j \in LastOfCollision :
        /\ IsFile(fs, last.res.items[j].dst)
        /\ fs[last.res.items[j].dst] = last.pre[last.res.items[j].src]

\* a flat copy of files, two of which share a name, onto a clean destination
FlatCollision ==
    /\ LastCopy /\ ~last.listOnly /\ ~last.relative /\ last.res.err = ""
    /\ last.hook = NoHook /\ last.counted = "no" /\ ~last.mv /\ CleanDst
    /\ LastOfCollision # {}

\* C23: in a flat copy in which several selected files get the same destination name, a
\* warning is emitted and the destination file holds the content of the last of them in
\* the order of the source paths
C23_FlatLastWriteWins ==
    FlatCollision => (WarnedExisting /\ LastWriteWins)

\* the entries the selectors of the recorded call match themselves, files and directories
Matched ==
    DOMAIN collectContent(last.pre, SrcRoot, DstRoot, last.globExp, last.relative).files
    \cup DOMAIN collectContent(last.pre, SrcRoot, DstRoot, last.globExp, last.relative).dirs

\* what the returned plan gives for the source p
Planned(p) == IF p \in DOMAIN last.res.files THEN last.res.files[p] ELSE last.res.dirs[p]

\* C24: without hook, every entry p that a selector matches is mapped by the returned plan
\* to dst / p.relative_to(src) (relative) or dst / p.name (flat), also when a directory
\* above p is matched and expanded, and the transfer made for p goes to that destination
C24_DestinationPerCandidate ==
    (LastCopy /\ ~last.listOnly /\ last.hook = NoHook /\ last.counted = "no" /\ last.res.err = "") =>
        \A p \in Matched :
            /\ p \in DOMAIN last.res.files \cup DOMAIN last.res.dirs
            /\ Planned(p) = dstPathOf(SrcRoot, DstRoot, last.relative, p)
            /\ \E i \in 1..Len(last.res.items) :
                  /\ last.res.items[i].src = p
                  /\ last.res.items[i].eff = Planned(p)

\* C25: in the plan returned without hook, everything that lies beneath a directory d of
\* dirs is a key of files (a file) or dirs (a directory) and is mapped to the destination
\* of d joined with its path relative to d
C25_ExpansionClosure ==
    (LastCopy /\ last.listOnly /\ last.hook = NoHook /\ last.res.err = "") =>
        \A d \in DOMAIN last.res.dirs :
            \A q \in {x \in DOMAIN last.pre : InParents(d, x)} :
                /\ IsFile(last.pre, q) => q \in DOMAIN last.res.files
                /\ IsDir(last.pre, q) => q \in DOMAIN last.res.dirs
                /\ Planned(q) = last.res.dirs[d] \o RelativeTo(q, d)

\* the directories below the destination root after the recorded call
DirsUnderDst == {p \in DOMAIN fs : IsDir(fs, p) /\ InParents(DstRoot, p)}

\* dirs = { k.parent: v.parent for k, v in files.items() }
DirsOfRenamed ==
    /\ DOMAIN last.res.dirs = {Parent(k) : k \in DOMAIN last.res.files}
    /\ \A k \in DOMAIN last.res.files : last.res.dirs[Parent(k)] = Parent(last.res.files[k])

\* C26: with a hook, the returned dirs map is parent(source file) -> parent(renamed
\* destination) over the renamed files, and its values are the directories that exist
\* under dst after the run on a clean destination (dst itself left aside)
C26_RenamedDirsAreCreatedDirs ==
    (/\ LastCopy /\ ~last.listOnly /\ last.hook.arity \in {1, 2} /\ last.res.err = ""
     /\ last.counted = "no" /\ CleanDst) =>
        /\ DirsOfRenamed
        /\ Range(last.res.dirs) \ {DstRoot} = DirsUnderDst

(***************************************************************************)
(* SpecSeq: copySingleFile(src, dst, count=...) called again and again     *)
(* with one dst and one value of count, force=False, from an existing      *)
(* source (a file or a folder, copied or moved).  The destination folder   *)
(* is absent, empty, or holds dst already.  `last` keeps the call just     *)
(* made and whether dst was absent before the first call; n counts the     *)
(* calls.                                                                  *)
(***************************************************************************)
MaxSeq == 3

SeqSrcs == {Append(In, Nm("f", "x")), Append(In, Nm("c", ""))}

SeqDsts == {Append(Out, Nm("f", "x")), Append(Out, Nm("c", ""))}

SeqTrees ==
    {TreeNested, (Out :> 0) @@ TreeNested, (Out :> 0) @@ (Append(Out, Nm("f", "x")) :> 6) @@ TreeNested}

InitSeq ==
    /\ fs \in SeqTrees
    /\ cache = {}
    /\ last = [op |-> "idle"]
    /\ n = 0

\* the next call of the sequence
CallCounted(src, dst, mv, count) ==
    /\ n < MaxSeq
    /\ Exists(fs, src)
    /\ IF Idle THEN TRUE ELSE (last.dst = dst /\ last.count = count)
    /\ \E r \in {copySingleFile(fs, {}, src, dst, FALSE, mv, count, FALSE)} :
        /\ fs' = r.fs
        /\ last' = [op |-> "copySingleFile", src |-> src, dst |-> dst, force |-> FALSE,
                    mv |-> mv, count |-> count, useCache |-> FALSE, pre |-> fs,
                    preCache |-> cache,
                    clean |-> IF Idle THEN ~Exists(fs, dst) ELSE last.clean,
                    res |-> [ret |-> r.ret, err |-> r.err, src |-> r.src, dst |-> r.dst,
                             xfer |-> r.xfer]]
    /\ n' = n + 1
    /\ UNCHANGED cache

NextSeq ==
    \E src \in SeqSrcs, dst \in SeqDsts, mv \in BOOLEAN, count \in {"count", "skipFirst"} :
        CallCounted(src, dst, mv, count)

SpecSeq == InitSeq /\ [][NextSeq]_vars

\* dst of the recorded call with the count k in the default format "-%03d"
DstCounted(k) ==
    Append(Parent(Resolve(last.dst)), Counted(Last(Resolve(last.dst)), FormatCount(DefaultFmt, k)))

\* where the n-th call of the sequence writes: dst-001, dst-002, ... with count=True or
\* when dst was there before the first call; dst, dst-001, ... with count="skipFirst"
SeqTarget ==
    IF last.count = "skipFirst" /\ last.clean
    THEN (IF n = 1 THEN Resolve(last.dst) ELSE DstCounted(n - 1))
    ELSE DstCounted(n)

\* what was on disk before the recorded call is still there, the moved source aside
Untouched ==
    \A q \in DOMAIN last.pre :
        (last.mv /\ IsPrefix(last.res.src, q)) \/ (q \in DOMAIN fs /\ fs[q] = last.pre[q])

\* C27: in a sequence of counted copySingleFile calls with one dst, force=False and an
\* existing source, every call succeeds and writes to a destination that did not exist
\* before it, what was written before is left as it was, and the counts go up by one from
\* call to call: dst-001, dst-002, ... with count=True and dst, dst-001, ... with skipFirst
C27_CountedNeverCollide ==
    LastSingle =>
        /\ last.res.ret = "dst" /\ last.res.xfer
        /\ ~Exists(last.pre, last.res.dst)
        /\ Exists(fs, last.res.dst)
        /\ Untouched
        /\ last.res.dst = SeqTarget

\* the third call with count="skipFirst" on a clean destination wrote dst-002
C27_Witness ==
    /\ LastSingle /\ n = 3 /\ last.count = "skipFirst" /\ last.clean
    /\ last.res.ret = "dst"
    /\ last.res.dst = DstCounted(2)
    /\ Exists(fs, Resolve(last.dst)) /\ Exists(fs, DstCounted(1)) /\ Exists(fs, DstCounted(2))

RECURSIVE progressUpdates(_, _)
\* progress.update(i+1) after each copySingleFile call of _copyFiles that returned:
\* the values the progress bar was given for the items 1..i
progressUpdates(items, i) ==
    IF i = 0 THEN <<>>
    ELSE IF items[i].ret = "raise" THEN progressUpdates(items, i - 1)
    ELSE Append(progressUpdates(items, i - 1), i)

\* _logCopyActions: one "Copy file/dir" line per entry of the returned maps, when verbose
loggedActions(files, dirs, verbose) ==
    IF verbose = "True" THEN sortedItems(files, dirs) ELSE <<>>

\* a sequence of source paths ascends
Ascending(srcs) == \A i, j \in 1..Len(srcs) : i < j => PathLess(srcs[i], srcs[j])

\* C28: the copySingleFile calls of one copyFiles execution are made for the items of the
\* plan in ascending order of the source path, without hook (whole entries) and with a hook
\* (file by file); the progress bar is updated once after each item with the number of
\* items done; the logged copy actions ascend by source path as well
C28_DeterministicOrder ==
    (LastCopy /\ ~last.listOnly /\ last.res.err = "") =>
        /\ Len(last.res.items) = Len(DataToCopy)
        /\ \A i \in 1..Len(DataToCopy) :
              /\ last.res.items[i].src = DataToCopy[i][1]
              /\ last.res.items[i].dst = DataToCopy[i][2]
        /\ Ascending([i \in 1..Len(last.res.items) |-> last.res.items[i].src])
        /\ progressUpdates(last.res.items, Len(last.res.items))
              = [i \in 1..Len(last.res.items) |-> i]
        /\ Ascending([i \in 1..Len(loggedActions(last.res.files, last.res.dirs, last.verbose)) |->
                         loggedActions(last.res.files, last.res.dirs, last.verbose)[i][1]])

\* a verbose execution with a hook that made four transfers, file by file
C28_Witness ==
    /\ LastCopy /\ ~last.listOnly /\ last.res.err = "" /\ last.verbose = "True"
    /\ last.hook.arity = 1
    /\ Len(last.res.items) = 4
    /\ Len(loggedActions(last.res.files, last.res.dirs, last.verbose)) > 4
    /\ \E i \in 1..4 : last.res.items[i].ret = "False"

(***************************************************************************)
(* Retried calls of copySingleFile with a cache: SpecCache, and a call     *)
(* that succeeded may be made again at once with force=False.              *)
(***************************************************************************)
\* the call recorded in last returned dst after a transfer
Succeeded == LastSingle /\ last.useCache /\ last.res.ret = "dst" /\ last.res.xfer

\* copySingleFile(src, dst, force=False, move=move, cache=cache), made again
Retry ==
    /\ Succeeded
    /\ n < MaxCached
    /\ \E r \in {copySingleFile(fs, cache, last.src, last.dst, FALSE, last.mv, "no", TRUE)} :
        /\ fs' = r.fs
        /\ cache' = r.cache
        /\ last' = [op |-> "copySingleFile", src |-> last.src, dst |-> last.dst,
                    force |-> FALSE, mv |-> last.mv, count |-> "no", useCache |-> TRUE,
                    pre |-> fs, preCache |-> cache, retried |-> TRUE,
                    res |-> [ret |-> r.ret, err |-> r.err, src |-> r.src, dst |-> r.dst,
                             xfer |-> r.xfer]]
    /\ n' = n + 1

NextRetry ==
    \/ NextCache
    \/ Retry

SpecRetry == InitCache /\ [][NextRetry]_vars

\* the call recorded in last repeats the successful call made just before it
Retried == LastSingle /\ "retried" \in DOMAIN last

\* C29: the call made again after a successful copy or move, with force false,
\* returns dst and changes neither the filesystem nor the cache
C29_RetryIdempotent ==
    Retried => (/\ last.res.ret = "dst" /\ ~last.res.xfer
                /\ fs = last.pre /\ cache = last.preCache)

(***************************************************************************)
(* copyMultipleFiles: a list of sources, and one destination folder or a   *)
(* list of destinations.                                                   *)
(***************************************************************************)
MaxPairs == 2

MaxMultiCalls == 2

\* dsts = [Path(dsts)/src.name for src in srcs] unless dsts is a list or tuple
dstsOf(srcs, dsts, single) ==
    IF single THEN [i \in 1..Len(srcs) |-> Append(dsts, Last(srcs[i]))] ELSE dsts

\* zip(srcs, dsts) stops with the shorter list
zipLen(srcs, dsts) == IF Len(srcs) <= Len(dsts) THEN Len(srcs) ELSE Len(dsts)

\* the loop body: r is what copySingleFile gave for the pair; rets.append(ret);
\* progress.update(i+1), where progress is bound only if showProgress
multiItem(st, r, src, dst, i, showProgress) ==
    IF r.ret = "raise"
    THEN [st EXCEPT !.fs = r.fs, !.calls = Append(@, <<src, dst>>), !.err = r.err]
    ELSE IF ~showProgress
    THEN [st EXCEPT !.fs = r.fs, !.cache = r.cache, !.calls = Append(@, <<src, dst>>),
                    !.rets = Append(@, [ret |-> r.ret, dst |-> r.dst]),
                    !.err = "UnboundLocalError"]
    ELSE [st EXCEPT !.fs = r.fs, !.cache = r.cache, !.calls = Append(@, <<src, dst>>),
                    !.rets = Append(@, [ret |-> r.ret, dst |-> r.dst]),
                    !.progress = Append(@, i)]

RECURSIVE multiLoop(_, _, _, _, _, _, _, _)
\* for i, (src, dst) in enumerate(zip(srcs, dsts)), from the i-th pair on
multiLoop(st, srcs, dsts, force, mv, hasCache, showProgress, i) ==
    IF i > zipLen(srcs, dsts) \/ st.err # "" THEN st
    ELSE multiLoop(multiItem(st,
                             copySingleFile(st.fs, st.cache, srcs[i], dsts[i], force, mv, "no",
                                            hasCache),
                             srcs[i], dsts[i], i, showProgress),
                   srcs, dsts, force, mv, hasCache, showProgress, i + 1)

\* copyMultipleFiles(srcs, dsts, force, move, cache=cache, showProgress=showProgress):
\* rets is returned if err is "", otherwise err is raised
copyMultipleFiles(f, cch, srcs, dsts, single, force, mv, hasCache, showProgress) ==
    multiLoop([fs |-> f, cache |-> cch, rets |-> <<>>, calls |-> <<>>, progress |-> <<>>,
               err |-> ""],
              srcs, dstsOf(srcs, dsts, single), force, mv, hasCache, showProgress, 1)

MultiSrcs == {Append(In, Nm("f", "x")), Append(In, Nm("c", "")), Append(In, Nm("e", ""))}

MultiDsts == {Append(Out, Nm("f", "x")), Append(Out, Nm("d", ""))}

Lists(S, len) == UNION {[1..k -> S] : k \in 0..len}

InitMulti ==
    /\ fs \in {TreeNested, (Out :> 0) @@ TreeNested}
    /\ cache = {}
    /\ last = [op |-> "idle"]
    /\ n = 0

CallCopyMultipleFiles(srcs, dsts, single, force, mv, hasCache, showProgress) ==
    /\ Idle
    /\ n < MaxMultiCalls
    /\ \E r \in {copyMultipleFiles(fs, cache, srcs, dsts, single, force, mv, hasCache,
                                   showProgress)} :
        /\ fs' = r.fs
        /\ cache' = r.cache
        /\ last' = [op |-> "copyMultipleFiles", srcs |-> srcs,
                    dsts |-> dstsOf(srcs, dsts, single), single |-> single, force |-> force,
                    mv |-> mv, useCache |-> hasCache, showProgress |-> showProgress,
                    pre |-> fs, preCache |-> cache,
                    res |-> [rets |-> r.rets, calls |-> r.calls, progress |-> r.progress,
                             err |-> r.err]]
    /\ n' = n + 1

NextMulti ==
    \/ Clear
    \/ \E srcs \in Lists(MultiSrcs, MaxPairs), force \in BOOLEAN, mv \in BOOLEAN,
          hasCache \in BOOLEAN, showProgress \in BOOLEAN :
          \/ CallCopyMultipleFiles(srcs, Out, TRUE, force, mv, hasCache, showProgress)
          \/ \E dsts \in Lists(MultiDsts, MaxPairs) :
                CallCopyMultipleFiles(srcs, dsts, FALSE, force, mv, hasCache, showProgress)

SpecMulti == InitMulti /\ [][NextMulti]_vars

LastMulti == last.op = "copyMultipleFiles"

\* C30: copyMultipleFiles calls copySingleFile once for each (src, dst) pair, in the order
\* of the lists, and returns one result per pair (dst or False), with and without
\* showProgress; with one destination folder the pairs are (src, dsts / src.name)
C30_OneCallPerPair ==
    (LastMulti /\ last.res.err \in {"", "UnboundLocalError"}) =>
        /\ last.res.err = ""
        /\ Len(last.res.calls) = zipLen(last.srcs, last.dsts)
        /\ Len(last.res.rets) = Len(last.res.calls)
        /\ last.res.progress = [i \in 1..Len(last.res.calls) |-> i]
        /\ \A i \in 1..Len(last.res.calls) :
              /\ last.res.calls[i] = <<last.srcs[i], last.dsts[i]>>
              /\ last.res.rets[i].ret \in {"dst", "False"}
              /\ last.res.rets[i].dst = Resolve(last.dsts[i])
              /\ last.single => last.dsts[i] = Append(Out, Last(last.srcs[i]))

====
